---- MODULE Spec2Model ----
(***************************************************************************)
(* Model of the timebook command layer (timebook/commands.py): the         *)
(* dispatcher run_command and the commands in, out, alter, switch, kill,   *)
(* list, running, now and display acting on the storage relations entry    *)
(* and meta.                                                               *)
(*                                                                         *)
(* timebook/db.py, timebook/dbutil.py and timebook/cmdutil.py are not part *)
(* of the available sources; the storage layer, the dbutil queries and the *)
(* cmdutil helpers are modelled from the specification (sections 3, 4.8    *)
(* and 5) and from the way commands.py calls them.                         *)
(***************************************************************************)
EXTENDS Integers, Sequences, FiniteSets, TLC

VARIABLES entry, meta, seq, last

vars == <<entry, meta, seq, last>>

(* ------------------------------ bounds -------------------------------- *)

\* MaxTime + 1 timestamps are drawn
MaxTime == 2
\* at most MaxId rows are ever inserted into entry
MaxId == 2
\* at most MaxRows rows are ever inserted into entry by the clock commands
\* taken alone
MaxRows == 3

\* the timestamps drawn are half a day apart (a calendar day has 86400
\* seconds)
HalfDay == 43200

Times == {k * HalfDay : k \in 0..MaxTime}

(* ------------------------------ values -------------------------------- *)

\* SQL NULL / Python None, and a present value
NULL == <<>>
Some(v) == <<v>>
Val(o) == o[1]

\* Names are tuples of characters so that prefix matching can be computed.
s_default == <<"d","e","f","a","u","l","t">>
s_dev     == <<"d","e","v">>

\* the sheet names used as command arguments
SheetArgs == {s_default, s_dev}

\* description word lists given to in on the command line
DescArgs == {<<>>, <<"a", "b">>}

\* description word lists given to alter (at least one word)
AlterArgs == {<<"b", "a.">>}

\* the --at argument after parsing: absent, or a timestamp
AtArgs == {NULL} \cup {Some(t) : t \in Times}

(* ------------------------------ storage ------------------------------- *)

\* A database value: the entry relation, the current_sheet row of meta and
\* the next identifier Storage assigns.
Db(e, m, s) == [entry |-> e, meta |-> m, seq |-> s]

\* Database(path, config): empty entry relation, current_sheet = "default"
InitDb == Db({}, s_default, 1)

\* select value from meta where key = 'current_sheet'
get_current_sheet(d) == d.meta

\* rows of one sheet
RowsOf(d, sheet) == {r \in d.entry : r.sheet = sheet}

\* rows of one sheet with end_time is null
ActiveRows(d, sheet) == {r \in RowsOf(d, sheet) : r.end_time = NULL}

\* rows of one sheet with end_time not null
ClosedRows(d, sheet) == {r \in RowsOf(d, sheet) : r.end_time # NULL}

\* fetchone() of a query without an order: the row with the least id
FirstRow(rows) == CHOOSE r \in rows : \A q \in rows : r.id <= q.id

\* dbutil.get_active_info(db, sheet): the active row of the sheet, or None
get_active_info(d, sheet) ==
    IF ActiveRows(d, sheet) = {} THEN NULL
    ELSE Some(FirstRow(ActiveRows(d, sheet)))

\* dbutil.get_current_start_time(db): (id, start_time) of the active row of
\* the current sheet, or None
get_current_start_time(d) == get_active_info(d, get_current_sheet(d))

\* dbutil.get_current_active_info(db): the active row of the current sheet
get_current_active_info(d) == get_active_info(d, get_current_sheet(d))

\* dbutil.get_most_recent_clockout(db, sheet): the possible results, each
\* None or (end_time, description) of a closed row of the sheet with the
\* greatest end_time; rows with equal end_time come in no defined order.
get_most_recent_clockout(d, sheet) ==
    IF ClosedRows(d, sheet) = {} THEN {NULL}
    ELSE {Some(<<Val(r.end_time), r.description>>) :
            r \in {c \in ClosedRows(d, sheet) :
                     \A q \in ClosedRows(d, sheet) :
                        Val(q.end_time) <= Val(c.end_time)}}

\* dbutil.get_sheet_names(db): the distinct sheet values present in entry
get_sheet_names(d) == {r.sheet : r \in d.entry}

\* dbutil.get_entry_count(db, sheet)
get_entry_count(d, sheet) == Cardinality(RowsOf(d, sheet))

\* cmdutil.parse_date_time_or_now(at): the given time, else the clock
parse_date_time_or_now(at, clock) == IF at # NULL THEN Val(at) ELSE clock

(* ------------------------------ results ------------------------------- *)

\* What a command body yields: the database it leaves (as it stands when an
\* error is raised), the error raised (NULL on normal return), the
\* timestamp clock_out settled on (lines 314-315) when it ran, and what was
\* printed.
Result(d, err, ots) ==
    [db |-> d, err |-> err, out_timestamp |-> ots, output |-> <<>>]

Done(d) == Result(d, NULL, NULL)
Raise(d, e) == Result(d, Some(e), NULL)

(* ------------------------------ commands ------------------------------ *)

\* ' '.join(words)
RECURSIVE Join(_)
Join(words) ==
    IF words = <<>> THEN ""
    ELSE IF Len(words) = 1 THEN words[1]
    ELSE words[1] \o " " \o Join(Tail(words))

\* switch refusing a sheet that has no entries
switch_existing_only(d, timesheet) ==
    IF RowsOf(d, timesheet) = {}
    THEN Raise(d, "NoMatch")
    ELSE Done(Db(d.entry, timesheet, d.seq))

\* switch(db, timesheet): update meta unless already current
switch(d, timesheet) ==
    IF get_current_sheet(d) # timesheet
    THEN Done(Db(d.entry, timesheet, d.seq))
    ELSE Done(d)

\* clock_out without the check of lines 317-318: nothing happens when the
\* current sheet is not active
clock_out_unchecked(d, at, timestamp, clock) ==
    LET ts == IF timestamp = NULL \/ timestamp = Some(0)
              THEN parse_date_time_or_now(at, clock)
              ELSE Val(timestamp)
        active == get_current_start_time(d)
    IN  IF active = NULL
        THEN Result(d, NULL, Some(ts))
        ELSE IF ts - Val(active).start_time < 0
        THEN Result(d, Some("NegativeDuration"), Some(ts))
        ELSE Result(
               Db({IF r.id = Val(active).id
                   THEN [r EXCEPT !.end_time = Some(ts)]
                   ELSE r : r \in d.entry}, d.meta, d.seq),
               NULL, Some(ts))

\* clock_out without the check of lines 323-324 of a negative duration
clock_out_unsigned(d, at, timestamp, clock) ==
    LET ts == IF timestamp = NULL \/ timestamp = Some(0)
              THEN parse_date_time_or_now(at, clock)
              ELSE Val(timestamp)
        active == get_current_start_time(d)
    IN  IF active = NULL
        THEN Result(d, Some("SheetNotActive"), Some(ts))
        ELSE Result(
               Db({IF r.id = Val(active).id
                   THEN [r EXCEPT !.end_time = Some(ts)]
                   ELSE r : r \in d.entry}, d.meta, d.seq),
               NULL, Some(ts))

\* clock_out updating every active entry (line 331 without the id)
clock_out_everywhere(d, at, timestamp, clock) ==
    LET ts == IF timestamp = NULL \/ timestamp = Some(0)
              THEN parse_date_time_or_now(at, clock)
              ELSE Val(timestamp)
        active == get_current_start_time(d)
    IN  IF active = NULL
        THEN Result(d, Some("SheetNotActive"), Some(ts))
        ELSE IF ts - Val(active).start_time < 0
        THEN Result(d, Some("NegativeDuration"), Some(ts))
        ELSE Result(
               Db({IF r.end_time = NULL
                   THEN [r EXCEPT !.end_time = Some(ts)]
                   ELSE r : r \in d.entry}, d.meta, d.seq),
               NULL, Some(ts))

\* clock_out updating every entry of the current sheet (line 331 selecting
\* by sheet instead of id)
clock_out_sheetwide(d, at, timestamp, clock) ==
    LET ts == IF timestamp = NULL \/ timestamp = Some(0)
              THEN parse_date_time_or_now(at, clock)
              ELSE Val(timestamp)
        active == get_current_start_time(d)
    IN  IF active = NULL
        THEN Result(d, Some("SheetNotActive"), Some(ts))
        ELSE IF ts - Val(active).start_time < 0
        THEN Result(d, Some("NegativeDuration"), Some(ts))
        ELSE Result(
               Db({IF r.sheet = get_current_sheet(d)
                   THEN [r EXCEPT !.end_time = Some(ts)]
                   ELSE r : r \in d.entry}, d.meta, d.seq),
               NULL, Some(ts))

\* clock_out(db, at, verbose, timestamp): `clock` is the clock read when
\* timestamp is falsy (None or 0) and at is absent
clock_out(d, at, timestamp, clock) ==
    LET ts == IF timestamp = NULL \/ timestamp = Some(0)
              THEN parse_date_time_or_now(at, clock)
              ELSE Val(timestamp)
        active == get_current_start_time(d)
    IN  IF active = NULL
        THEN Result(d, Some("SheetNotActive"), Some(ts))
        ELSE LET active_id   == Val(active).id
                 start_time  == Val(active).start_time
                 active_time == ts - start_time
             IN  IF active_time < 0
                 THEN Result(d, Some("NegativeDuration"), Some(ts))
                 ELSE Result(
                        Db({IF r.id = active_id
                            THEN [r EXCEPT !.end_time = Some(ts)]
                            ELSE r : r \in d.entry}, d.meta, d.seq),
                        NULL, Some(ts))

\* out(db, at, verbose)
out(d, at, clock) == clock_out(d, at, NULL, clock)

\* in_insert without the check of lines 157-158 against the most recent
\* clock-out
in_insert_unordered(d, sheet, timestamp, description, resume, mrc, ots) ==
    Result(
      Db(d.entry \cup
           {[id          |-> d.seq,
             sheet       |-> sheet,
             start_time  |-> timestamp,
             end_time    |-> NULL,
             description |-> IF mrc # NULL /\ resume THEN Val(mrc)[2]
                             ELSE IF Join(description) = "" THEN NULL
                             ELSE Some(Join(description)),
             extra       |-> NULL]},
         d.meta, d.seq + 1),
      NULL, ots)

\* in_insert storing the joined words as they are, without `or None`
\* (line 154)
in_insert_blank(d, sheet, timestamp, description, resume, mrc, ots) ==
    IF mrc # NULL /\ timestamp < Val(mrc)[1]
    THEN Result(d, Some("TimeOrderingViolation"), ots)
    ELSE Result(
           Db(d.entry \cup
                {[id          |-> d.seq,
                  sheet       |-> sheet,
                  start_time  |-> timestamp,
                  end_time    |-> NULL,
                  description |-> IF mrc # NULL /\ resume THEN Val(mrc)[2]
                                  ELSE Some(Join(description)),
                  extra       |-> NULL]},
              d.meta, d.seq + 1),
           NULL, ots)

\* in_insert without lines 159-160: resume does not take the previous
\* description
in_insert_given(d, sheet, timestamp, description, resume, mrc, ots) ==
    IF mrc # NULL /\ timestamp < Val(mrc)[1]
    THEN Result(d, Some("TimeOrderingViolation"), ots)
    ELSE Result(
           Db(d.entry \cup
                {[id          |-> d.seq,
                  sheet       |-> sheet,
                  start_time  |-> timestamp,
                  end_time    |-> NULL,
                  description |-> IF Join(description) = "" THEN NULL
                                  ELSE Some(Join(description)),
                  extra       |-> NULL]},
              d.meta, d.seq + 1),
           NULL, ots)

\* the insert at the end of in_ (lines 153-165), for one result mrc of
\* get_most_recent_clockout
in_insert(d, sheet, timestamp, description, resume, mrc, ots) ==
    LET given == IF Join(description) = "" THEN NULL
                 ELSE Some(Join(description))
    IN  IF mrc # NULL /\ timestamp < Val(mrc)[1]
        THEN Result(d, Some("TimeOrderingViolation"), ots)
        ELSE Result(
               Db(d.entry \cup
                    {[id          |-> d.seq,
                      sheet       |-> sheet,
                      start_time  |-> timestamp,
                      end_time    |-> NULL,
                      description |-> IF mrc # NULL /\ resume
                                      THEN Val(mrc)[2] ELSE given,
                      extra       |-> NULL]},
                  d.meta, d.seq + 1),
               NULL, ots)

\* in_ without the check of lines 150-152 that the sheet is not active
in_unchecked(d, description, switch_to, out_first, at, resume, clock, later) ==
    LET d1    == IF switch_to # NULL THEN switch(d, Val(switch_to)).db ELSE d
        sheet == IF switch_to # NULL THEN Val(switch_to)
                 ELSE get_current_sheet(d)
        timestamp == parse_date_time_or_now(at, clock)
        co == IF out_first
              THEN clock_out(d1, NULL, Some(timestamp), later)
              ELSE Done(d1)
    IN  IF resume /\ description # <<>>
        THEN {Raise(d1, "ResumeConflict")}
        ELSE IF co.err # NULL
        THEN {Result(co.db, co.err, co.out_timestamp)}
        ELSE {in_insert(co.db, sheet, timestamp, description, resume, mrc,
                        co.out_timestamp) :
                mrc \in get_most_recent_clockout(co.db, sheet)}

\* in_ checking at line 150 the sheet that was current before the switch
in_stale_sheet(d, description, switch_to, out_first, at, resume, clock, later) ==
    LET d1    == IF switch_to # NULL THEN switch(d, Val(switch_to)).db ELSE d
        sheet == IF switch_to # NULL THEN Val(switch_to)
                 ELSE get_current_sheet(d)
        timestamp == parse_date_time_or_now(at, clock)
        co == IF out_first
              THEN clock_out(d1, NULL, Some(timestamp), later)
              ELSE Done(d1)
    IN  IF resume /\ description # <<>>
        THEN {Raise(d1, "ResumeConflict")}
        ELSE IF co.err # NULL
        THEN {Result(co.db, co.err, co.out_timestamp)}
        ELSE IF get_active_info(co.db, get_current_sheet(d)) # NULL
        THEN {Result(co.db, Some("SheetAlreadyActive"), co.out_timestamp)}
        ELSE {in_insert(co.db, sheet, timestamp, description, resume, mrc,
                        co.out_timestamp) :
                mrc \in get_most_recent_clockout(co.db, sheet)}

\* in_(db, description, switch, out, at, resume): the possible results.
\* `clock` is the clock read by in_ (line 147), `later` the clock read by
\* clock_out if it reads it.
in_(d, description, switch_to, out_first, at, resume, clock, later) ==
    LET d1    == IF switch_to # NULL THEN switch(d, Val(switch_to)).db ELSE d
        sheet == IF switch_to # NULL THEN Val(switch_to)
                 ELSE get_current_sheet(d)
    IN  IF resume /\ description # <<>>
        THEN {Raise(d1, "ResumeConflict")}
        ELSE
        LET timestamp == parse_date_time_or_now(at, clock)
            co == IF out_first
                  THEN clock_out(d1, NULL, Some(timestamp), later)
                  ELSE Done(d1)
        IN  IF co.err # NULL
            THEN {Result(co.db, co.err, co.out_timestamp)}
            ELSE IF get_active_info(co.db, sheet) # NULL
            THEN {Result(co.db, Some("SheetAlreadyActive"),
                         co.out_timestamp)}
            ELSE {in_insert(co.db, sheet, timestamp, description, resume,
                            mrc, co.out_timestamp) :
                    mrc \in get_most_recent_clockout(co.db, sheet)}

\* the lines typed at kill's prompt: NULL is a closed or interrupted prompt
\* (EOFError, KeyboardInterrupt)
Answers ==
    {NULL, Some(<<"y">>), Some(<<"y","e","s">>), Some(<<"n">>), Some(<<>>),
     Some(<<" ","Y","E","S"," ">>), Some(<<"y","e">>)}
yes_answers == {<<"y">>, <<"y","e","s">>}

\* str.strip(): without the blanks at both ends
RECURSIVE strip(_)
strip(s) ==
    IF s = <<>> THEN s
    ELSE IF Head(s) = " " THEN strip(Tail(s))
    ELSE IF s[Len(s)] = " " THEN strip(SubSeq(s, 1, Len(s) - 1))
    ELSE s

\* str.lower() on the letters the answers use
lower(s) ==
    [i \in 1..Len(s) |->
        CASE s[i] = "Y" -> "y"
          [] s[i] = "E" -> "e"
          [] s[i] = "S" -> "s"
          [] s[i] = "N" -> "n"
          [] OTHER -> s[i]]

\* kill deleting the sheet whatever is answered (lines 191-193 missing)
kill_unasked(d, timesheet, answer) ==
    LET to_delete == IF timesheet # NULL THEN Val(timesheet)
                     ELSE get_current_sheet(d)
        d1 == Db({r \in d.entry : r.sheet # to_delete}, d.meta, d.seq)
    IN  IF timesheet = NULL THEN switch(d1, s_default) ELSE Done(d1)

\* kill deleting by `sheet like ?||'%'` instead of `sheet = ?` (line 194)
kill_prefixed(d, timesheet, answer) ==
    LET to_delete == IF timesheet # NULL THEN Val(timesheet)
                     ELSE get_current_sheet(d)
        confirm == IF answer = NULL THEN FALSE
                   ELSE lower(strip(Val(answer))) \in yes_answers
    IN  IF ~confirm
        THEN [Done(d) EXCEPT !.output = <<"canceled">>]
        ELSE LET d1 == Db({r \in d.entry :
                             SubSeq(r.sheet, 1, 2) # SubSeq(to_delete, 1, 2)},
                          d.meta, d.seq)
             IN  IF timesheet = NULL THEN switch(d1, s_default)
                 ELSE Done(d1)

\* kill switching to "default" after every deletion (line 195 missing)
kill_resetting(d, timesheet, answer) ==
    LET to_delete == IF timesheet # NULL THEN Val(timesheet)
                     ELSE get_current_sheet(d)
        confirm == IF answer = NULL THEN FALSE
                   ELSE lower(strip(Val(answer))) \in yes_answers
    IN  IF ~confirm
        THEN [Done(d) EXCEPT !.output = <<"canceled">>]
        ELSE switch(Db({r \in d.entry : r.sheet # to_delete},
                       d.meta, d.seq), s_default)

\* kill(db, timesheet), with the line typed at the prompt
kill(d, timesheet, answer) ==
    LET to_delete == IF timesheet # NULL THEN Val(timesheet)
                     ELSE get_current_sheet(d)
        switch_to_default == (timesheet = NULL)
        confirm == IF answer = NULL THEN FALSE
                   ELSE lower(strip(Val(answer))) \in yes_answers
    IN  IF ~confirm
        THEN [Done(d) EXCEPT !.output = <<"canceled">>]
        ELSE LET d1 == Db({r \in d.entry : r.sheet # to_delete},
                          d.meta, d.seq)
             IN  IF switch_to_default THEN switch(d1, s_default)
                 ELSE Done(d1)

\* alter updating every entry of the current sheet (line 353 without
\* the id)
alter_sheetwide(d, description) ==
    LET active == get_current_active_info(d)
    IN  IF active = NULL
        THEN Raise(d, "SheetNotActive")
        ELSE Done(Db({IF r.sheet = get_current_sheet(d)
                      THEN [r EXCEPT !.description = Some(Join(description))]
                      ELSE r : r \in d.entry}, d.meta, d.seq))

\* alter(db, description)
alter(d, description) ==
    LET active == get_current_active_info(d)
    IN  IF active = NULL
        THEN Raise(d, "SheetNotActive")
        ELSE Done(Db({IF r.id = Val(active).id
                      THEN [r EXCEPT !.description = Some(Join(description))]
                      ELSE r : r \in d.entry}, d.meta, d.seq))

(* --------------------- command table and lookup ----------------------- *)

\* the command table with every function under the name of its code
\* (line 69 without `name or`): in_ is registered as "in_"
commands_by_code_name ==
    (<<"b","a","c","k","e","n","d">>     :> "backend") @@
    (<<"s","h","e","l","l">>             :> "backend") @@
    (<<"i","n","_">>                     :> "in_") @@
    (<<"s","t","a","r","t">>             :> "in_") @@
    (<<"k","i","l","l">>                 :> "kill") @@
    (<<"d","e","l","e","t","e">>         :> "kill") @@
    (<<"l","i","s","t">>                 :> "list") @@
    (<<"l","s">>                         :> "list") @@
    (<<"s","w","i","t","c","h">>         :> "switch") @@
    (<<"o","u","t">>                     :> "out") @@
    (<<"s","t","o","p">>                 :> "out") @@
    (<<"a","l","t","e","r">>             :> "alter") @@
    (<<"w","r","i","t","e">>             :> "alter") @@
    (<<"r","u","n","n","i","n","g">>     :> "running") @@
    (<<"a","c","t","i","v","e">>         :> "running") @@
    (<<"n","o","w">>                     :> "now") @@
    (<<"i","n","f","o">>                 :> "now") @@
    (<<"d","i","s","p","l","a","y">>     :> "display") @@
    (<<"e","x","p","o","r","t">>         :> "display") @@
    (<<"f","o","r","m","a","t">>         :> "display") @@
    (<<"s","h","o","w">>                 :> "display")

\* the command table built by the @command decorators: name or alias ->
\* function
commands ==
    (<<"b","a","c","k","e","n","d">>     :> "backend") @@
    (<<"s","h","e","l","l">>             :> "backend") @@
    (<<"i","n">>                         :> "in_") @@
    (<<"s","t","a","r","t">>             :> "in_") @@
    (<<"k","i","l","l">>                 :> "kill") @@
    (<<"d","e","l","e","t","e">>         :> "kill") @@
    (<<"l","i","s","t">>                 :> "list") @@
    (<<"l","s">>                         :> "list") @@
    (<<"s","w","i","t","c","h">>         :> "switch") @@
    (<<"o","u","t">>                     :> "out") @@
    (<<"s","t","o","p">>                 :> "out") @@
    (<<"a","l","t","e","r">>             :> "alter") @@
    (<<"w","r","i","t","e">>             :> "alter") @@
    (<<"r","u","n","n","i","n","g">>     :> "running") @@
    (<<"a","c","t","i","v","e">>         :> "running") @@
    (<<"n","o","w">>                     :> "now") @@
    (<<"i","n","f","o">>                 :> "now") @@
    (<<"d","i","s","p","l","a","y">>     :> "display") @@
    (<<"e","x","p","o","r","t">>         :> "display") @@
    (<<"f","o","r","m","a","t">>         :> "display") @@
    (<<"s","h","o","w">>                 :> "display")

\* str.startswith
startswith(s, prefix) ==
    Len(prefix) <= Len(s) /\ SubSeq(s, 1, Len(prefix)) = prefix

\* cmdutil.complete(it, lookup, key_desc): the name resolved, or the error
\* raised with the matching names it carries
complete(it, lookup) ==
    LET matches == {i \in it : startswith(i, lookup)}
    IN  IF lookup \in it
        THEN [err |-> NULL, name |-> lookup, matches |-> {lookup}]
        ELSE IF matches = {}
        THEN [err |-> Some("NoMatch"), name |-> NULL, matches |-> {}]
        ELSE IF Cardinality(matches) = 1
        THEN [err |-> NULL, name |-> CHOOSE i \in matches : TRUE,
              matches |-> matches]
        ELSE [err |-> Some("AmbiguousLookup"), name |-> NULL,
              matches |-> matches]

(* ------------------------- read-only commands ------------------------- *)

\* the code point of a lower-case letter
Alphabet ==
    <<"a","b","c","d","e","f","g","h","i","j","k","l","m",
      "n","o","p","q","r","s","t","u","v","w","x","y","z">>
Code(c) == CHOOSE i \in 1..Len(Alphabet) : Alphabet[i] = c

\* a < b for two names, as `order by sheet asc` compares them
RECURSIVE NameLess(_, _)
NameLess(a, b) ==
    IF b = <<>> THEN FALSE
    ELSE IF a = <<>> THEN TRUE
    ELSE IF Head(a) = Head(b) THEN NameLess(Tail(a), Tail(b))
    ELSE Code(Head(a)) < Code(Head(b))

\* the rows of a query `order by sheet asc` (rows of one sheet by id)
RECURSIVE OrderBySheet(_)
OrderBySheet(rows) ==
    IF rows = {} THEN <<>>
    ELSE LET first == CHOOSE r \in rows : \A q \in rows \ {r} :
                         \/ NameLess(r.sheet, q.sheet)
                         \/ (r.sheet = q.sheet /\ r.id < q.id)
         IN  <<first>> \o OrderBySheet(rows \ {first})

\* select distinct sheet from entry order by sheet asc
RECURSIVE DistinctSheets(_)
DistinctSheets(names) ==
    IF names = {} THEN <<>>
    ELSE LET first == CHOOSE n \in names :
                         \A q \in names \ {n} : NameLess(n, q)
         IN  <<first>> \o DistinctSheets(names \ {first})

\* sum(ifnull(end_time, now) - start_time) over rows
RECURSIVE SumTime(_, _)
SumTime(rows, clock) ==
    IF rows = {} THEN 0
    ELSE LET r == CHOOSE q \in rows : TRUE
         IN  (IF r.end_time = NULL THEN clock ELSE Val(r.end_time))
               - r.start_time + SumTime(rows \ {r}, clock)

\* strftime('%s', date('now')): the midnight before the clock
Midnight(clock) == (clock \div 86400) * 86400

\* str(timedelta(seconds=s)): whole days, then h:mm:ss within the day
Timedelta(s) ==
    [days |-> s \div 86400,
     hms  |-> <<(s % 86400) \div 3600, (s % 3600) \div 60, s % 60>>]

\* the rows of list's table for the sheets named, in their order:
\* (name, is_current, active, today, total)
list_table(d, names, clock) ==
    [i \in 1..Len(names) |->
       LET e1 == RowsOf(d, names[i])
           active == SumTime(ActiveRows(d, names[i]), clock)
       IN  [name       |-> names[i],
            is_current |-> names[i] = get_current_sheet(d),
            active     |-> IF active # 0 THEN Some(Timedelta(active))
                           ELSE NULL,
            today      |-> Timedelta(SumTime(
                             {e3 \in e1 : e3.start_time > Midnight(clock)},
                             clock)),
            total      |-> Timedelta(SumTime(e1, clock))]]

\* list without `order by sheet asc`: the sheets come in the order of their
\* first rows
list_unordered(d, simple, clock) ==
    LET sheets == get_sheet_names(d)
        names == [i \in 1..Cardinality(sheets) |->
                    CHOOSE n \in sheets :
                      Cardinality({q \in sheets :
                        FirstRow(RowsOf(d, q)).id
                          <= FirstRow(RowsOf(d, n)).id}) = i]
    IN  IF simple
        THEN [Done(d) EXCEPT !.output =
                IF names = <<>> THEN <<<<>>>> ELSE names]
        ELSE IF Len(names) = 0
        THEN [Done(d) EXCEPT !.output = <<"(no sheets)">>]
        ELSE [Done(d) EXCEPT !.output = list_table(d, names, clock)]

\* list(db, simple): the lines printed in simple mode (one empty line when
\* there is no name), else the rows of the table
list(d, simple, clock) ==
    LET names == DistinctSheets({r.sheet : r \in d.entry})
    IN  IF simple
        THEN [Done(d) EXCEPT !.output =
                IF names = <<>> THEN <<<<>>>> ELSE names]
        ELSE IF Len(names) = 0
        THEN [Done(d) EXCEPT !.output = <<"(no sheets)">>]
        ELSE [Done(d) EXCEPT !.output = list_table(d, names, clock)]

\* running(db): the rows printed, (sheet, description or '--')
running(d) ==
    LET rows == OrderBySheet({r \in d.entry : r.end_time = NULL})
    IN  [Done(d) EXCEPT !.output =
            [i \in 1..Len(rows) |->
                <<rows[i].sheet,
                  IF rows[i].description = NULL THEN "--"
                  ELSE Val(rows[i].description)>>]]

\* str.rstrip('.') on the descriptions given
rstrip(description) ==
    IF description = "b a." THEN "b a" ELSE description

\* now reporting an empty sheet as not active (lines 404-407 missing)
now_unchecked(d, timesheet, simple, notes, clock) ==
    IF simple
    THEN [Done(d) EXCEPT !.output = <<get_current_sheet(d)>>]
    ELSE
    LET c == IF timesheet # NULL /\ Val(timesheet) # <<>>
             THEN complete(get_sheet_names(d), Val(timesheet))
             ELSE [err |-> NULL, name |-> get_current_sheet(d),
                   matches |-> {}]
    IN  IF c.err # NULL THEN Raise(d, Val(c.err))
        ELSE
        LET sheet == c.name
            running_ == get_active_info(d, sheet)
        IN  IF FALSE
            THEN Raise(d, "EmptySheet")
            ELSE
            LET elapsed == clock - Val(running_).start_time
                _notes == IF running_ # NULL
                             /\ Val(running_).description # NULL
                             /\ Val(Val(running_).description) # ""
                          THEN rstrip(Val(Val(running_).description))
                          ELSE ""
                active == IF running_ = NULL THEN NULL
                          ELSE Some([duration |-> Timedelta(elapsed),
                                     notes    |-> _notes])
            IN  IF notes
                THEN [Done(d) EXCEPT !.output = <<_notes>>]
                ELSE [Done(d) EXCEPT !.output =
                        <<[sheet |-> sheet, active |-> active]>>]

\* now making the sheet it reports on the current sheet
now_switching(d, timesheet, simple, notes, clock) ==
    IF simple
    THEN [Done(d) EXCEPT !.output = <<get_current_sheet(d)>>]
    ELSE
    LET c == IF timesheet # NULL /\ Val(timesheet) # <<>>
             THEN complete(get_sheet_names(d), Val(timesheet))
             ELSE [err |-> NULL, name |-> get_current_sheet(d),
                   matches |-> {}]
    IN  IF c.err # NULL THEN Raise(d, Val(c.err))
        ELSE
        LET sheet == c.name
            running_ == get_active_info(d, sheet)
        IN  IF get_entry_count(d, sheet) = 0
            THEN Raise(d, "EmptySheet")
            ELSE
            LET elapsed == clock - Val(running_).start_time
                _notes == IF running_ # NULL
                             /\ Val(running_).description # NULL
                             /\ Val(Val(running_).description) # ""
                          THEN rstrip(Val(Val(running_).description))
                          ELSE ""
                active == IF running_ = NULL THEN NULL
                          ELSE Some([duration |-> Timedelta(elapsed),
                                     notes    |-> _notes])
            IN  IF notes
                THEN [Done(switch(d, sheet).db) EXCEPT !.output = <<_notes>>]
                ELSE [Done(switch(d, sheet).db) EXCEPT !.output =
                        <<[sheet |-> sheet, active |-> active]>>]

\* now(db, timesheet, simple, notes): the line printed. `clock` is the time
\* at which the elapsed time of the active entry is taken; an active value
\* of NULL stands for the text 'not active'.
now(d, timesheet, simple, notes, clock) ==
    IF simple
    THEN [Done(d) EXCEPT !.output = <<get_current_sheet(d)>>]
    ELSE
    LET c == IF timesheet # NULL /\ Val(timesheet) # <<>>
             THEN complete(get_sheet_names(d), Val(timesheet))
             ELSE [err |-> NULL, name |-> get_current_sheet(d),
                   matches |-> {}]
    IN  IF c.err # NULL THEN Raise(d, Val(c.err))
        ELSE
        LET sheet == c.name
            running_ == get_active_info(d, sheet)
        IN  IF get_entry_count(d, sheet) = 0
            THEN Raise(d, "EmptySheet")
            ELSE
            LET elapsed == clock - Val(running_).start_time
                _notes == IF running_ # NULL
                             /\ Val(running_).description # NULL
                             /\ Val(Val(running_).description) # ""
                          THEN rstrip(Val(Val(running_).description))
                          ELSE ""
                active == IF running_ = NULL THEN NULL
                          ELSE Some([duration |-> Timedelta(elapsed),
                                     notes    |-> _notes])
            IN  IF notes
                THEN [Done(d) EXCEPT !.output = <<_notes>>]
                ELSE [Done(d) EXCEPT !.output =
                        <<[sheet |-> sheet, active |-> active]>>]

(* ------------------------------ display ------------------------------- *)

\* cmdutil.parse_date_time(date) of the dates given with --start and --end:
\* 00:00 of the date, or none
StartArgs == {NULL, Some(86400)}
EndArgs == {NULL, Some(0)}

\* the rows of a sheet that satisfy display's `where` (lines 459-465); a
\* null end_time satisfies no comparison
where(rows, start, end) ==
    {r \in rows :
        /\ start # NULL => r.start_time >= Val(start)
        /\ end # NULL => (r.end_time # NULL /\ Val(r.end_time) <= Val(end))}

\* date(t, 'unixepoch', 'localtime'): the number of the day (local time
\* taken as UTC)
Day(t) == t \div 86400

\* cmdutil.timedelta_hms_display: hours, minutes, seconds
displ_total(t) == <<t \div 3600, (t % 3600) \div 60, t % 60>>

\* time.strftime('%H:%M:%S', time.localtime(t))
displ_time(t) == displ_total(t % 86400)

\* time.strftime('%b %d, %Y', time.localtime(t))
displ_date(t) == <<"date", Day(t)>>

\* the orders in which `order by e.start_time asc` can return the rows
OrderByStart(rows) ==
    {f \in [1..Cardinality(rows) -> rows] :
        /\ \A i, j \in DOMAIN f : i # j => f[i] # f[j]
        /\ \A i, j \in DOMAIN f : i < j =>
              f[i].start_time <= f[j].start_time}

\* the rows (day, day_total) of the query grouped by day, `order by day asc`
RECURSIVE DaysOf(_, _)
DaysOf(rows, clock) ==
    IF rows = {} THEN <<>>
    ELSE LET day == CHOOSE x \in {Day(r.start_time) : r \in rows} :
                       \A r \in rows : x <= Day(r.start_time)
             of_day == {r \in rows : Day(r.start_time) = day}
         IN  <<[day |-> day, day_total |-> SumTime(of_day, clock)]>>
               \o DaysOf(rows \ of_day, clock)

\* the loop of format_timebook (lines 547-568) from entry i on; st holds
\* table, last_day, day_total, the position k of days_iter, and whether
\* the assertion of line 566 has failed
RECURSIVE format_loop(_, _, _, _, _)
format_loop(entries, days, clock, i, st) ==
    IF i > Len(entries) \/ st.failed THEN st
    ELSE
    LET e == entries[i]
        day == Day(e.start_time)
        duration == (IF e.end_time = NULL THEN clock ELSE Val(e.end_time))
                      - e.start_time
        diff == displ_total(duration)
        trange == IF e.end_time = NULL THEN <<displ_time(e.start_time)>>
                  ELSE <<displ_time(e.start_time),
                         displ_time(Val(e.end_time))>>
        description == IF e.description = NULL THEN ""
                       ELSE Val(e.description)
    IN  IF st.last_day = Some(day)
        THEN format_loop(entries, days, clock, i + 1,
               [st EXCEPT !.table =
                    Append(@, <<<<>>, trange, diff, description>>)])
        ELSE
        LET t1 == IF st.last_day # NULL
                  THEN Append(st.table,
                              <<<<>>, <<>>, displ_total(st.day_total), "">>)
                  ELSE st.table
            cur == days[st.k]
        IN  IF day # cur.day
            THEN [st EXCEPT !.failed = TRUE]
            ELSE format_loop(entries, days, clock, i + 1,
                   [table     |-> Append(t1, <<displ_date(e.start_time),
                                              trange, diff, description>>),
                    last_day  |-> Some(day),
                    day_total |-> cur.day_total,
                    k         |-> st.k + 1,
                    failed    |-> FALSE])

\* the end of the table without the total of the last day (line 580)
format_end_short(table, day_total, total) ==
    table \o <<<<<<"Total">>, <<>>, displ_total(total), "">>>>

\* the end of the table (lines 579-581): the total of the last day and the
\* grand total
format_end(table, day_total, total) ==
    table \o <<<<<<>>, <<>>, displ_total(day_total), "">>,
               <<<<"Total">>, <<>>, displ_total(total), "">>>>

\* format_timebook(db, sheet, where): the tables it can print
format_timebook(d, sheet, start, end, clock) ==
    LET rows == where(RowsOf(d, sheet), start, end)
    IN  IF rows = {}
        THEN {[Done(d) EXCEPT !.output = <<"(empty)">>]}
        ELSE
        {LET st == format_loop(entries, DaysOf(rows, clock), clock, 1,
                     [table     |-> <<<<"Day", "Start      End", "Duration",
                                        "Notes">>>>,
                      last_day  |-> NULL,
                      day_total |-> 0,
                      k         |-> 1,
                      failed    |-> FALSE])
         IN  IF st.failed THEN Raise(d, "AssertionError")
             ELSE [Done(d) EXCEPT !.output =
                     format_end(st.table, st.day_total,
                                SumTime(rows, clock))] :
           entries \in OrderByStart(rows)}

\* datetime.fromtimestamp(t).strftime('%m/%d/%Y %H:%M:%S')
format_datetime(t) == [date |-> Day(t), time |-> displ_time(t)]

\* the rows of a query without `order by`, in the order of their ids
RECURSIVE ById(_)
ById(rows) ==
    IF rows = {} THEN <<>>
    ELSE <<FirstRow(rows)>> \o ById(rows \ {FirstRow(rows)})

\* the rows format_csv writes for the entries selected
csv_table(rows, clock) ==
    <<<<"Start", "End", "Length", "Description">>>>
    \o [i \in 1..Len(rows) |->
          <<format_datetime(rows[i].start_time),
            format_datetime(IF rows[i].end_time = NULL THEN clock
                            ELSE Val(rows[i].end_time)),
            (IF rows[i].end_time = NULL THEN clock
             ELSE Val(rows[i].end_time)) - rows[i].start_time,
            IF rows[i].description = NULL THEN ""
            ELSE Val(rows[i].description)>>]
    \o <<<<"Total", "",
           [sum_from |-> 2, sum_to |-> Len(rows) + 1, per |-> 3600], "">>>>

\* format_csv without `end_time is not null` (line 489): an open entry is
\* written as ending now
format_csv_open(d, sheet, start, end, clock) ==
    [Done(d) EXCEPT !.output =
        csv_table(ById(where(RowsOf(d, sheet), start, end)), clock)]

\* format_csv(db, sheet, where)
format_csv(d, sheet, start, end, clock) ==
    [Done(d) EXCEPT !.output =
        csv_table(ById(where(ClosedRows(d, sheet), start, end)), clock)]

\* display(db, timesheet, format, start, end): the possible results
display(d, timesheet, format, start, end, clock) ==
    LET c == IF timesheet # NULL /\ Val(timesheet) # <<>>
             THEN complete(get_sheet_names(d), Val(timesheet))
             ELSE [err |-> NULL, name |-> get_current_sheet(d),
                   matches |-> {}]
    IN  IF c.err # NULL THEN {Raise(d, Val(c.err))}
        ELSE IF format = "plain"
        THEN format_timebook(d, c.name, start, end, clock)
        ELSE IF format = "csv"
        THEN {format_csv(d, c.name, start, end, clock)}
        ELSE {Raise(d, "InvalidFormat")}

(* ----------------------------- dispatcher ----------------------------- *)

\* Storage transactions: 'begin' keeps the database as it is, 'rollback'
\* returns to it, 'commit' keeps the changes.
rollback(saved, d) == saved
commit(saved, d) == d

\* the command body run_command calls (line 101) with the arguments docopt
\* parsed; env holds what the body reads from outside: the clock and the
\* answer at the prompt
call(func, d, args, env) ==
    CASE func = "in_" ->
           in_(d, args.description, args.switch, args.out, args.at,
               args.resume, env.clock, env.later)
      [] func = "out" -> {out(d, args.at, env.clock)}
      [] func = "alter" -> {alter(d, args.description)}
      [] func = "switch" -> {switch(d, args.timesheet)}
      [] func = "kill" -> {kill(d, args.timesheet, env.answer)}
      [] func = "list" -> {list(d, args.simple, env.clock)}
      [] func = "running" -> {running(d)}
      [] func = "now" ->
           {now(d, args.timesheet, args.simple, args.notes, env.clock)}
      [] func = "display" ->
           display(d, args.timesheet, args.format, args.start, args.end,
                   env.clock)

\* finish without the except clause of lines 102-104: a failure is not
\* rolled back
finish_uncaught(saved, r) ==
    [db |-> r.db, err |-> r.err, log |-> <<"begin">>,
     out_timestamp |-> r.out_timestamp, output |-> r.output]

\* the outcome of run_command for one result r of the command body
finish(saved, r) ==
    IF r.err # NULL
    THEN [db |-> rollback(saved, r.db), err |-> r.err,
          log |-> <<"begin", "rollback">>,
          out_timestamp |-> r.out_timestamp, output |-> r.output]
    ELSE [db |-> commit(saved, r.db), err |-> NULL,
          log |-> <<"begin", "commit">>,
          out_timestamp |-> r.out_timestamp, output |-> r.output]

\* run_command resolving the name inside the try block, after 'begin'
run_command_late(d, name, args, env) ==
    LET c == complete(DOMAIN commands, name)
    IN  IF c.err # NULL
        THEN {finish(d, Result(d, c.err, NULL))}
        ELSE IF args = NULL
        THEN {finish(d, Raise(d, "UsageError"))}
        ELSE {finish(d, r) :
                r \in call(commands[c.name], d, Val(args), env)}

\* run_command(db, name, args): the possible outcomes. args is the record
\* docopt makes of the argument list, NULL when docopt rejects the list.
\* log lists the transaction statements executed.
run_command(d, name, args, env) ==
    LET c == complete(DOMAIN commands, name)
    IN  IF c.err # NULL
        THEN {[db |-> d, err |-> c.err, log |-> <<>>,
               out_timestamp |-> NULL, output |-> <<>>]}
        ELSE IF args = NULL
        THEN {finish(d, Raise(d, "UsageError"))}
        ELSE {finish(d, r) :
                r \in call(commands[c.name], d, Val(args), env)}

(* --------------------------- state machine ---------------------------- *)

\* the command names typed: exact names, aliases, abbreviations, and names
\* that resolve to nothing or to several commands
NameArgs ==
    {<<"i","n">>, <<"o">>, <<"w","r","i","t","e">>, <<"s","w">>,
     <<"k","i","l","l">>, <<"x">>, <<"s","t">>, <<"i">>,
     <<"l","s">>, <<"a","c","t">>, <<"n","o","w">>, <<"s","h","o","w">>}

\* the function a typed name runs, "unresolved" when it resolves to none
Func(name) ==
    LET c == complete(DOMAIN commands, name)
    IN  IF c.err # NULL THEN "unresolved" ELSE commands[c.name]

FuncOf == [name \in NameArgs |-> Func(name)]

\* the typed names that run one function
NamesOf(func) == {name \in NameArgs : FuncOf[name] = func}

SwitchArgs == {NULL} \cup {Some(t) : t \in SheetArgs}

Env(clock, later, answer) ==
    [clock |-> clock, later |-> later, answer |-> answer]

\* no process is running
Idle ==
    [name |-> NULL, func |-> "none", args |-> NULL, err |-> NULL,
     log |-> <<>>, out_timestamp |-> NULL, output |-> <<>>,
     answer |-> NULL, pre_entry |-> {}, pre_meta |-> NULL]

\* The record of the command the running process has run: what was typed,
\* what it raised, the transaction statements executed, and the store
\* before it. `time` is the time of the command: the one given with --at,
\* or the clock's when none was given (NULL for a command without --at);
\* it is recorded in place of at.
Last(name, args, time, o) ==
    [name |-> name, func |-> FuncOf[name],
     args |-> IF args = NULL THEN NULL
              ELSE Some([Val(args) EXCEPT !.at = time]),
     err |-> o.err, log |-> o.log,
     out_timestamp |-> o.out_timestamp, output |-> o.output,
     answer |-> NULL, pre_entry |-> entry, pre_meta |-> Some(meta)]

\* The outcomes of one run of run_from_cmdline on the store (one command
\* per process) that insert no more than MaxId rows in all.
Run(name, args, env) ==
    IF last # Idle THEN {}
    ELSE {o \in run_command(Db(entry, meta, seq), name, args, env) :
            o.db.seq <= MaxId + 1}

Init ==
    /\ entry = InitDb.entry
    /\ meta = InitDb.meta
    /\ seq = InitDb.seq
    /\ last = Idle

\* t in [-s <timesheet>] [-o] [-a <time>] [-r] [<description>...]
In ==
    \E name \in NamesOf("in_"), description \in DescArgs,
       switch_to \in SwitchArgs, out_first \in BOOLEAN, resume \in BOOLEAN,
       at \in AtArgs :
      \E clock \in IF at # NULL THEN {0} ELSE Times :
        \E later \in IF out_first /\ parse_date_time_or_now(at, clock) = 0
                     THEN Times ELSE {0} :
          LET args == Some([description |-> description,
                            switch |-> switch_to, out |-> out_first,
                            at |-> at, resume |-> resume])
          IN  \E o \in Run(name, args, Env(clock, later, NULL)) :
                /\ entry' = o.db.entry
                /\ meta' = o.db.meta
                /\ seq' = o.db.seq
                /\ last' = Last(name, args,
                                 Some(IF at # NULL THEN Val(at) ELSE clock),
                                 o)

\* t out [-a <time>]
Out ==
    \E name \in NamesOf("out"), at \in AtArgs :
      \E clock \in IF at # NULL THEN {0} ELSE Times :
        LET args == Some([at |-> at])
        IN  \E o \in Run(name, args, Env(clock, 0, NULL)) :
              /\ entry' = o.db.entry
              /\ meta' = o.db.meta
              /\ seq' = o.db.seq
              /\ last' = Last(name, args,
                               Some(IF at # NULL THEN Val(at) ELSE clock),
                               o)

\* t alter <description>...
Alter ==
    \E name \in NamesOf("alter"), description \in AlterArgs :
        LET args == Some([description |-> description, at |-> NULL])
        IN  \E o \in Run(name, args, Env(0, 0, NULL)) :
              /\ entry' = o.db.entry
              /\ meta' = o.db.meta
              /\ seq' = o.db.seq
              /\ last' = Last(name, args, NULL, o)

\* t switch <timesheet>
Switch ==
    \E name \in NamesOf("switch"), timesheet \in SheetArgs :
        LET args == Some([timesheet |-> timesheet, at |-> NULL])
        IN  \E o \in Run(name, args, Env(0, 0, NULL)) :
              /\ entry' = o.db.entry
              /\ meta' = o.db.meta
              /\ seq' = o.db.seq
              /\ last' = Last(name, args, NULL, o)

\* t kill [<timesheet>], and the answer typed at its prompt
Kill ==
    \E name \in NamesOf("kill"), timesheet \in SwitchArgs,
       answer \in Answers :
        LET args == Some([timesheet |-> timesheet, at |-> NULL])
        IN  \E o \in Run(name, args, Env(0, 0, answer)) :
              /\ entry' = o.db.entry
              /\ meta' = o.db.meta
              /\ seq' = o.db.seq
              /\ last' = [Last(name, args, NULL, o)
                            EXCEPT !.answer = Some(answer)]

\* t list [-s]; the clock is read for the table only
List ==
    \E name \in NamesOf("list"), simple \in BOOLEAN :
      \E clock \in IF simple THEN {0} ELSE Times :
        LET args == Some([simple |-> simple, at |-> NULL])
        IN  \E o \in Run(name, args, Env(clock, 0, NULL)) :
              /\ entry' = o.db.entry
              /\ meta' = o.db.meta
              /\ seq' = o.db.seq
              /\ last' = Last(name, args,
                               IF simple THEN NULL ELSE Some(clock), o)

\* t running
Running ==
    \E name \in NamesOf("running") :
        LET args == Some([at |-> NULL])
        IN  \E o \in Run(name, args, Env(0, 0, NULL)) :
              /\ entry' = o.db.entry
              /\ meta' = o.db.meta
              /\ seq' = o.db.seq
              /\ last' = Last(name, args, NULL, o)

\* the sheet names, whole or abbreviated, given to now
NowArgs == {NULL, Some(<<"d","e">>), Some(s_dev)}

\* t now [-s] [-n] [<timesheet>]; the clock is read for the elapsed time of
\* an active entry
Now ==
    \E name \in NamesOf("now"), timesheet \in NowArgs, simple \in BOOLEAN,
       notes \in BOOLEAN :
      \E clock \in IF simple \/ notes \/ entry = {} THEN {0} ELSE Times :
        LET args == Some([timesheet |-> timesheet, simple |-> simple,
                          notes |-> notes, at |-> NULL])
        IN  /\ simple => (timesheet = NULL /\ ~notes)
            /\ \E o \in Run(name, args, Env(clock, 0, NULL)) :
                  /\ entry' = o.db.entry
                  /\ meta' = o.db.meta
                  /\ seq' = o.db.seq
                  /\ last' = Last(name, args,
                                   IF simple \/ notes THEN NULL
                                   ELSE Some(clock), o)

\* the sheet names, whole or abbreviated, given to display
DisplayArgs == {NULL, Some(<<"d","e">>)}

\* the formats given with --format
FormatArgs == {"plain", "csv", "xml"}

\* t display [-s <date>] [-e <date>] [-f <format>] [<timesheet>]; the clock
\* is read for the entries still open
Display ==
    \E name \in NamesOf("display"), timesheet \in DisplayArgs,
       format \in FormatArgs, start \in StartArgs, end \in EndArgs :
      \E clock \in IF format = "plain" /\ \E r \in entry : r.end_time = NULL
                    THEN Times ELSE {0} :
        LET args == Some([timesheet |-> timesheet, format |-> format,
                          start |-> start, end |-> end, at |-> NULL])
        IN  /\ format = "xml" => (start = NULL /\ end = NULL)
            /\ \E o \in Run(name, args, Env(clock, 0, NULL)) :
                  /\ entry' = o.db.entry
                  /\ meta' = o.db.meta
                  /\ seq' = o.db.seq
                  /\ last' = Last(name, args, Some(clock), o)

\* a command given arguments its usage does not allow
BadArgs ==
    \E name \in NameArgs \ NamesOf("unresolved") :
        \E o \in Run(name, NULL, Env(0, 0, NULL)) :
          /\ entry' = o.db.entry
          /\ meta' = o.db.meta
          /\ seq' = o.db.seq
          /\ last' = Last(name, NULL, NULL, o)

\* a command name that resolves to no command or to several
Unresolved ==
    \E name \in NamesOf("unresolved") :
        \E o \in Run(name, NULL, Env(0, 0, NULL)) :
          /\ entry' = o.db.entry
          /\ meta' = o.db.meta
          /\ seq' = o.db.seq
          /\ last' = Last(name, NULL, NULL, o)

\* the process ends; the store stays
Exit ==
    /\ last # Idle
    /\ last' = Idle
    /\ UNCHANGED <<entry, meta, seq>>

Next ==
    \/ In \/ Out \/ Alter \/ Switch \/ Kill
    \/ List \/ Running \/ Now \/ Display
    \/ BadArgs \/ Unresolved \/ Exit

Spec == Init /\ [][Next]_vars

(* --------------------------- name resolution -------------------------- *)

\* Sheet names that are prefixes of one another, and the stores that hold
\* one closed entry for each name of a subset of them.
ResolveSheets ==
    <<<<"a">>, <<"a","b">>, <<"a","b","c">>, <<"b","c">>>>

ResolveEntries(ids) ==
    {[id |-> i, sheet |-> ResolveSheets[i], start_time |-> 0,
      end_time |-> Some(0), description |-> NULL, extra |-> NULL] :
        i \in ids}

\* the sheet names typed, whole or abbreviated
SheetLookups ==
    {<<>>, <<"a">>, <<"a","b">>, <<"a","b","c">>, <<"b">>, <<"b","c">>,
     <<"c">>, <<"a","c">>}

\* the command names typed, whole or abbreviated
CommandLookups ==
    {<<"i","n">>, <<"i","n","f">>, <<"i","n","f","o">>, <<"i">>, <<"s">>,
     <<"s","h">>, <<"s","h","o">>, <<"d">>, <<"d","e","l">>, <<"o">>,
     <<"o","u","t","s">>, <<"l","s">>, <<"l">>, <<"x">>}

\* the record of one call of cmdutil.complete: the names, the candidate,
\* the result, and whether the candidate was a name already resolved
Resolved(it, lookup, again) ==
    [func |-> "complete", it |-> it, lookup |-> lookup,
     result |-> complete(it, lookup), again |-> again]

InitResolve ==
    /\ \E ids \in SUBSET (1..Len(ResolveSheets)) :
         entry = ResolveEntries(ids)
    /\ meta = s_default
    /\ seq = Len(ResolveSheets) + 1
    /\ last = Idle

\* now and display resolving the sheet name given (lines 399 and 453)
ResolveSheet ==
    /\ last = Idle
    /\ \E lookup \in SheetLookups :
         last' = Resolved(get_sheet_names(Db(entry, meta, seq)), lookup,
                          FALSE)
    /\ UNCHANGED <<entry, meta, seq>>

\* run_command resolving the command name (line 85)
ResolveCommand ==
    /\ last = Idle
    /\ \E lookup \in CommandLookups :
         last' = Resolved(DOMAIN commands, lookup, FALSE)
    /\ UNCHANGED <<entry, meta, seq>>

\* the name resolved is given as the candidate of a second resolution
ResolveAgain ==
    /\ last # Idle
    /\ last.result.err = NULL
    /\ ~last.again
    /\ last' = Resolved(last.it, last.result.name, TRUE)
    /\ UNCHANGED <<entry, meta, seq>>

NextResolve == ResolveSheet \/ ResolveCommand \/ ResolveAgain

SpecResolve == InitResolve /\ [][NextResolve]_vars

(* ------------------ the commands that write the store ----------------- *)

\* The commands that change the store, typed by their names with explicit
\* timestamps, until MaxRows rows have been inserted.
RunLong(name, args, env) ==
    IF last # Idle THEN {}
    ELSE {o \in run_command(Db(entry, meta, seq), name, args, env) :
            o.db.seq <= MaxRows + 1}

\* t in [-s dev] [-o] -a <time> [-r] [<description>...]
LongIn ==
    \E description \in DescArgs, switch_to \in {NULL, Some(s_dev)},
       out_first \in BOOLEAN, resume \in BOOLEAN, t \in Times :
      \E later \in IF out_first /\ t = 0 THEN Times ELSE {0} :
        LET name == <<"i","n">>
            args == Some([description |-> description,
                          switch |-> switch_to, out |-> out_first,
                          at |-> Some(t), resume |-> resume])
        IN  \E o \in RunLong(name, args, Env(0, later, NULL)) :
              /\ entry' = o.db.entry
              /\ meta' = o.db.meta
              /\ seq' = o.db.seq
              /\ last' = Last(name, args, Some(t), o)

\* t out -a <time>
LongOut ==
    \E t \in Times :
        LET name == <<"o">>
            args == Some([at |-> Some(t)])
        IN  \E o \in RunLong(name, args, Env(0, 0, NULL)) :
              /\ entry' = o.db.entry
              /\ meta' = o.db.meta
              /\ seq' = o.db.seq
              /\ last' = Last(name, args, Some(t), o)

\* t switch <timesheet>
LongSwitch ==
    \E timesheet \in SheetArgs :
        LET name == <<"s","w">>
            args == Some([timesheet |-> timesheet, at |-> NULL])
        IN  \E o \in RunLong(name, args, Env(0, 0, NULL)) :
              /\ entry' = o.db.entry
              /\ meta' = o.db.meta
              /\ seq' = o.db.seq
              /\ last' = Last(name, args, NULL, o)

\* t kill [<timesheet>], confirmed at the prompt
LongKill ==
    \E timesheet \in SwitchArgs :
        LET name == <<"k","i","l","l">>
            args == Some([timesheet |-> timesheet, at |-> NULL])
            answer == Some(<<"y">>)
        IN  \E o \in RunLong(name, args, Env(0, 0, answer)) :
              /\ entry' = o.db.entry
              /\ meta' = o.db.meta
              /\ seq' = o.db.seq
              /\ last' = [Last(name, args, NULL, o)
                            EXCEPT !.answer = Some(answer)]

NextLong == LongIn \/ LongOut \/ LongSwitch \/ LongKill \/ Exit

SpecLong == Init /\ [][NextLong]_vars

(* ------------------------------- claims ------------------------------- *)

\* the store as a database value, and the store before the last command
Store == Db(entry, meta, seq)
Pre == Db(last.pre_entry, Val(last.pre_meta), seq)

\* the last command ran function f with arguments docopt accepted
Ran(f) == last.func = f /\ last.args # NULL
Args == Val(last.args)

\* the sheet a clock-in targets: the switch target if given, otherwise the
\* sheet current before the command
Target == IF Args.switch # NULL THEN Val(Args.switch) ELSE Val(last.pre_meta)

\* the last command left entries and current sheet as they were
StoreUnchanged == entry = last.pre_entry /\ meta = Val(last.pre_meta)

\* the sheet names present in the entry relation
SheetsOf(e) == {r.sheet : r \in e}

\* C1: in every reachable state each sheet has at most one entry whose
\* end_time is null.
C1_AtMostOneActive ==
    \A sheet \in SheetsOf(entry) \cup SheetArgs :
        Cardinality(ActiveRows(Store, sheet)) <= 1

\* a clock-in has just succeeded on a sheet that already had a closed entry
C1_Witness ==
    /\ Ran("in_") /\ last.err = NULL
    /\ ClosedRows(Store, Target) # {}
    /\ Cardinality(ActiveRows(Store, Target)) = 1

\* C2 as stated: every clock-in without out-first on a target sheet that is
\* active fails with SheetAlreadyActive and leaves entries and current
\* sheet as they were.
C2_Original ==
    (Ran("in_") /\ ~Args.out /\ ActiveRows(Pre, Target) # {})
        => (last.err = Some("SheetAlreadyActive") /\ StoreUnchanged)

\* C2 amended: a clock-in without out-first on an active target sheet
\* always fails and leaves entries and current sheet as they were; the
\* failure is SheetAlreadyActive unless resume was requested together with
\* a description, which fails first as conflicting directives.
C2_AlreadyActive ==
    (Ran("in_") /\ ~Args.out /\ ActiveRows(Pre, Target) # {})
        => /\ StoreUnchanged
           /\ last.log = <<"begin", "rollback">>
           /\ last.err = IF Args.resume /\ Args.description # <<>>
                         THEN Some("ResumeConflict")
                         ELSE Some("SheetAlreadyActive")

\* a clock-in with a switch target other than the current sheet has just
\* failed with SheetAlreadyActive
C2_Witness ==
    /\ Ran("in_") /\ ~Args.out
    /\ Args.switch # NULL /\ Args.switch # last.pre_meta
    /\ ActiveRows(Pre, Target) # {}
    /\ last.err = Some("SheetAlreadyActive")

\* C3: clock-out on a current sheet without an active entry fails with
\* SheetNotActive and leaves entries and current sheet as they were, also
\* when other sheets are active.
C3_NotActive ==
    (Ran("out") /\ ActiveRows(Pre, Val(last.pre_meta)) = {})
        => (last.err = Some("SheetNotActive") /\ StoreUnchanged)

\* a clock-out has just failed on a non-active current sheet while another
\* sheet has an active entry
C3_Witness ==
    /\ Ran("out") /\ ActiveRows(Pre, Val(last.pre_meta)) = {}
    /\ \E r \in last.pre_entry : r.end_time = NULL
    /\ last.err = Some("SheetNotActive")

\* the time of the last command (given with --at, or the clock's)
Time == Val(Args.at)

\* the sheet whose active entry a clock-out acts on: the sheet current
\* when clock_out runs
OutSheet == IF last.func = "in_" THEN Target ELSE Val(last.pre_meta)

\* the last command ran clock_out (directly, or as the out-first step of
\* a clock-in)
ClockOutRan == (Ran("out") \/ Ran("in_")) /\ last.out_timestamp # NULL

MostRecentEnd(rows) ==
    CHOOSE t \in {Val(r.end_time) : r \in rows} :
        \A r \in rows : Val(r.end_time) <= t

\* the last clock-in either failed with TimeOrderingViolation changing
\* nothing (expected when it is before the target's most recent end_time) or
\* succeeded and inserted an entry of the target sheet starting at its time
OrderingOutcome ==
    IF ClosedRows(Pre, Target) # {}
       /\ Time < MostRecentEnd(ClosedRows(Pre, Target))
    THEN last.err = Some("TimeOrderingViolation") /\ StoreUnchanged
    ELSE /\ last.err = NULL
         /\ \E r \in entry \ last.pre_entry :
               r.sheet = Target /\ r.start_time = Time

\* C5 as stated: every clock-in on a non-active sheet fails with
\* TimeOrderingViolation, inserting nothing, when its time is before the
\* end_time of the sheet's most recent closed entry, and succeeds when it is
\* equal or later or when the sheet has no closed entry.
C5_Original ==
    (Ran("in_") /\ ActiveRows(Pre, Target) = {}) => OrderingOutcome

\* C5 amended: the same, for a clock-in that requests neither out-first
\* (which fails with SheetNotActive on a non-active sheet) nor resume
\* together with a description (which fails as conflicting directives).
C5_TimeOrdering ==
    (/\ Ran("in_") /\ ActiveRows(Pre, Target) = {}
     /\ ~Args.out /\ ~(Args.resume /\ Args.description # <<>>))
        => OrderingOutcome

\* a clock-in has just succeeded at exactly the end_time of the target
\* sheet's most recent closed entry
C5_Witness ==
    /\ Ran("in_") /\ ~Args.out /\ last.err = NULL
    /\ ClosedRows(Pre, Target) # {}
    /\ Time = MostRecentEnd(ClosedRows(Pre, Target))

\* the last command was dispatched to a command function
Dispatched == last.func \notin {"none", "unresolved"}

\* C6: a dispatched command begins a transaction, commits exactly once on
\* normal return, and on any failure rolls back exactly once without
\* committing, leaving entries and current sheet as before the command.
C6_AllOrNothing ==
    Dispatched =>
        /\ last.err = NULL => last.log = <<"begin", "commit">>
        /\ last.err # NULL =>
             (last.log = <<"begin", "rollback">> /\ StoreUnchanged)

\* a clock-in that switched to another sheet has just failed at a later
\* step
C6_Witness ==
    /\ Ran("in_") /\ last.err # NULL
    /\ Args.switch # NULL /\ Args.switch # last.pre_meta
    /\ last.pre_entry # {}

\* C7 as stated: every error, a name-resolution failure for the command
\* name included, is preceded by 'begin' and followed by 'rollback'.
C7_Original ==
    last.err # NULL => last.log = <<"begin", "rollback">>

\* C7 amended: every error raised once the command name is resolved is
\* preceded by 'begin' and followed by 'rollback' and no 'commit'; NoMatch
\* and AmbiguousLookup for the command name are raised before 'begin', so
\* no transaction statement is executed, and the store is unchanged.
C7_ErrorsRollBack ==
    /\ (Dispatched /\ last.err # NULL)
         => last.log = <<"begin", "rollback">>
    /\ last.func = "unresolved"
         => /\ last.err \in {Some("NoMatch"), Some("AmbiguousLookup")}
            /\ last.log = <<>>
            /\ StoreUnchanged

\* an ambiguous command name has just been refused on a non-empty store
C7_Witness ==
    /\ last.func = "unresolved" /\ last.err = Some("AmbiguousLookup")
    /\ entry # {}

\* the words joined by single spaces
RECURSIVE Spaced(_)
Spaced(words) ==
    IF Len(words) = 0 THEN ""
    ELSE IF Len(words) = 1 THEN words[1]
    ELSE Spaced(SubSeq(words, 1, Len(words) - 1)) \o " "
           \o words[Len(words)]

\* the description given to the last command: absent when no word was given
Given ==
    IF Args.description = <<>> THEN NULL
    ELSE Some(Spaced(Args.description))

\* C8 as stated: a successful clock-in inserts exactly one entry (target
\* sheet, start_time the time chosen, end_time null, description the words
\* joined or absent), leaves every pre-existing entry unchanged, and changes
\* the current sheet only to a given switch target.
C8_Original ==
    (Ran("in_") /\ last.err = NULL) =>
        \E r \in entry \ last.pre_entry :
            /\ entry = last.pre_entry \cup {r}
            /\ r.sheet = Target /\ r.start_time = Time
            /\ r.end_time = NULL /\ r.description = Given
            /\ meta = Target
            /\ Args.switch = NULL => meta = Val(last.pre_meta)

\* the entries before the last clock-in as its out-first step leaves them
AfterOutFirst ==
    IF Args.out
    THEN {IF r.sheet = Target /\ r.end_time = NULL
          THEN [r EXCEPT !.end_time = Some(Time)] ELSE r :
            r \in last.pre_entry}
    ELSE last.pre_entry

\* C8 amended: a successful clock-in inserts exactly one entry (target
\* sheet, start_time the time chosen, end_time null); its description is
\* the words joined or absent, except that with resume it is the
\* description of a most recent closed entry of the target sheet when there
\* is one; every pre-existing entry is unchanged, except that with out-first
\* the active entry of the target sheet gets end_time = the time chosen; the
\* current sheet changes only to a given switch target.
C8_ClockInFrame ==
    (Ran("in_") /\ last.err = NULL) =>
        \E r \in entry \ AfterOutFirst :
            /\ entry = AfterOutFirst \cup {r}
            /\ r.id \notin {q.id : q \in last.pre_entry}
            /\ r.sheet = Target /\ r.start_time = Time
            /\ r.end_time = NULL
            /\ LET closed == {c \in AfterOutFirst :
                                c.sheet = Target /\ c.end_time # NULL}
               IN  IF Args.resume /\ closed # {}
                   THEN \E c \in closed :
                          /\ Val(c.end_time) = MostRecentEnd(closed)
                          /\ r.description = c.description
                   ELSE r.description = Given
            /\ meta = Target
            /\ Args.switch = NULL => meta = Val(last.pre_meta)

\* a clock-in with a description of two words and a switch target has just
\* succeeded while another entry exists
C8_Witness ==
    /\ Ran("in_") /\ last.err = NULL
    /\ Len(Args.description) = 2
    /\ Args.switch # NULL /\ Args.switch # last.pre_meta
    /\ last.pre_entry # {}

\* C9: a successful clock-out sets end_time to its time on the one active
\* entry of the current sheet and changes nothing else.
C9_ClockOutFrame ==
    (Ran("out") /\ last.err = NULL) =>
        \E a \in ActiveRows(Pre, Val(last.pre_meta)) :
            /\ ActiveRows(Pre, Val(last.pre_meta)) = {a}
            /\ entry = (last.pre_entry \ {a})
                         \cup {[a EXCEPT !.end_time = Some(Time)]}
            /\ meta = Val(last.pre_meta)

\* a clock-out has just succeeded while another sheet has an active entry
C9_Witness ==
    /\ Ran("out") /\ last.err = NULL
    /\ \E r \in entry : r.end_time = NULL /\ r.sheet # meta

\* C10: alter fails with SheetNotActive, changing nothing, when the
\* current sheet has no active entry; otherwise it sets the description of
\* that entry to the words joined by spaces and changes nothing else.
C10_AlterFrame ==
    Ran("alter") =>
        IF ActiveRows(Pre, Val(last.pre_meta)) = {}
        THEN last.err = Some("SheetNotActive") /\ StoreUnchanged
        ELSE \E a \in ActiveRows(Pre, Val(last.pre_meta)) :
               /\ last.err = NULL
               /\ entry = (last.pre_entry \ {a})
                     \cup {[a EXCEPT
                              !.description = Some(Spaced(Args.description))]}
               /\ meta = Val(last.pre_meta)

\* alter has just replaced a description while the current sheet also has
\* a closed entry
C10_Witness ==
    /\ Ran("alter") /\ last.err = NULL
    /\ \E a \in last.pre_entry :
         a.sheet = meta /\ a.end_time = NULL /\ a.description # NULL
    /\ ClosedRows(Store, meta) # {}

\* C11: the initial current sheet is "default"; switch to any name
\* succeeds, with or without entries of that name: afterwards the current
\* sheet is that name and the entries are unchanged; switching to the sheet
\* that is current leaves the whole store unchanged.
C11_SwitchAlwaysSucceeds ==
    /\ get_current_sheet(InitDb) = s_default
    /\ Ran("switch") =>
         /\ last.err = NULL
         /\ last.log = <<"begin", "commit">>
         /\ meta = Args.timesheet
         /\ entry = last.pre_entry
         /\ Args.timesheet = Val(last.pre_meta) => StoreUnchanged

\* switch has just moved the current sheet to a name without entries while
\* another sheet has entries
C11_Witness ==
    /\ Ran("switch") /\ last.err = NULL
    /\ Args.timesheet # Val(last.pre_meta)
    /\ RowsOf(Store, Args.timesheet) = {}
    /\ entry # {}

\* the answers typed that confirm: y or yes, whatever the case and the
\* blanks around
ConfirmingAnswers ==
    {Some(<<"y">>), Some(<<"y","e","s">>), Some(<<" ","Y","E","S"," ">>)}

\* the last command was a kill and its prompt was answered y or yes
KillConfirmed == Ran("kill") /\ Val(last.answer) \in ConfirmingAnswers

\* the last command was a kill and its prompt was answered otherwise, or
\* closed
KillDeclined == Ran("kill") /\ Val(last.answer) \notin ConfirmingAnswers

\* the sheet the last kill names: the one given, else the sheet current
\* before the command
Killed ==
    IF Args.timesheet # NULL THEN Val(Args.timesheet) ELSE Val(last.pre_meta)

\* C12: a confirmed kill of sheet S deletes every entry of S, closed or
\* active, and no entry of another sheet.
C12_KillFrame ==
    KillConfirmed =>
        /\ last.err = NULL
        /\ \A r \in entry : r.sheet # Killed
        /\ \A r \in last.pre_entry : r.sheet # Killed => r \in entry
        /\ entry \subseteq last.pre_entry

\* a confirmed kill has just deleted the active entry of a sheet while
\* another sheet keeps its entry
C12_Witness ==
    /\ KillConfirmed
    /\ ActiveRows(Pre, Killed) # {}
    /\ entry # {}

\* C13 as stated: after a confirmed kill the current sheet is "default"
\* when the deleted sheet was the current sheet, named or not, and is
\* unchanged otherwise.
C13_Original ==
    KillConfirmed =>
        meta = IF Killed = Val(last.pre_meta) THEN s_default
               ELSE Val(last.pre_meta)

\* C13 amended: after a confirmed kill the current sheet is "default" when
\* no sheet was named (the current sheet was deleted), and is unchanged
\* when a sheet was named, also when the sheet named is the current sheet.
C13_KillPointer ==
    KillConfirmed =>
        meta = IF Args.timesheet = NULL THEN s_default
               ELSE Val(last.pre_meta)

\* a confirmed kill naming the current sheet, which is not "default", has
\* just deleted its entries
C13_Witness ==
    /\ KillConfirmed
    /\ Args.timesheet = last.pre_meta
    /\ Val(last.pre_meta) # s_default
    /\ RowsOf(Pre, Killed) # {}

\* C14: a kill whose confirmation is declined returns normally with a
\* canceled outcome: entries and current sheet are unchanged, and the
\* dispatcher commits.
C14_KillDeclined ==
    KillDeclined =>
        /\ last.err = NULL
        /\ last.output = <<"canceled">>
        /\ StoreUnchanged
        /\ last.log = <<"begin", "commit">>

\* a kill of a sheet with entries has just been declined at a closed
\* prompt
C14_Witness ==
    /\ KillDeclined
    /\ Val(last.answer) = NULL
    /\ RowsOf(Store, Killed) # {}

\* the last command ran one of the reporting commands
Reported == last.func \in {"list", "running", "now", "display"}

\* C15: the current sheet changes only through switch, a clock-in with a
\* switch target, and a kill falling back to "default"; every other
\* command leaves it unchanged, and list, running, now and display leave
\* the entries unchanged as well.
C15_PointerFrame ==
    last # Idle =>
        /\ meta # Val(last.pre_meta) =>
              \/ Ran("switch")
              \/ Ran("in_") /\ Args.switch = Some(meta)
              \/ Ran("kill") /\ Args.timesheet = NULL /\ meta = s_default
        /\ Reported => StoreUnchanged

\* now has just reported on a sheet with an active entry that is not the
\* current sheet
C15_Witness ==
    /\ Ran("now") /\ last.err = NULL
    /\ ~Args.simple /\ ~Args.notes
    /\ last.output[1].sheet # meta
    /\ last.output[1].active # NULL

\* p is a prefix of name n
IsPrefix(p, n) == Len(p) <= Len(n) /\ \A i \in 1..Len(p) : p[i] = n[i]

\* the names of a set that have the candidate as a prefix
WithPrefix(it, lookup) == {n \in it : IsPrefix(lookup, n)}

\* C16: a candidate that equals a canonical name resolves to that name,
\* even when it is a proper prefix of other names ("in" resolves to
\* clock-in although "info" exists), so a resolved name resolves to itself;
\* otherwise the names having the candidate as a prefix decide: none gives
\* NoMatch, one gives that name, several give AmbiguousLookup carrying
\* exactly those names.
C16_Resolution ==
    last # Idle =>
        LET r == last.result
            found == WithPrefix(last.it, last.lookup)
        IN  /\ IF last.lookup \in last.it
               THEN r.err = NULL /\ r.name = last.lookup
               ELSE IF found = {} THEN r.err = Some("NoMatch")
               ELSE IF Cardinality(found) = 1
               THEN r.err = NULL /\ found = {r.name}
               ELSE r.err = Some("AmbiguousLookup") /\ r.matches = found
            /\ last.again => (r.err = NULL /\ r.name = last.lookup)
            /\ (last.it = DOMAIN commands /\ last.lookup = <<"i","n">>)
                 => (r.err = NULL /\ commands[r.name] = "in_")

\* a candidate has just resolved to itself although it is a proper prefix
\* of another name
C16_Witness ==
    /\ last # Idle
    /\ last.result.err = NULL /\ last.result.name = last.lookup
    /\ \E n \in last.it : n # last.lookup /\ IsPrefix(last.lookup, n)

\* the sheets with entries that a name given to now or display stands
\* for: the name itself when it has entries, else those it is a prefix of
Matching(given) ==
    IF given \in SheetsOf(last.pre_entry) THEN {given}
    ELSE {n \in SheetsOf(last.pre_entry) : IsPrefix(given, n)}

\* the seconds a printed timedelta stands for
Seconds(td) ==
    td.days * 86400 + td.hms[1] * 3600 + td.hms[2] * 60 + td.hms[3]

\* the line of the last now reports the state of the sheet: not active
\* when it has no entry with null end_time, else the time elapsed at the
\* clock since the start of that entry
NowReports(sheet) ==
    /\ last.err = NULL
    /\ Len(last.output) = 1
    /\ last.output[1].sheet = sheet
    /\ IF ActiveRows(Pre, sheet) = {}
       THEN last.output[1].active = NULL
       ELSE /\ last.output[1].active # NULL
            /\ \E a \in ActiveRows(Pre, sheet) :
                  Seconds(Val(last.output[1].active).duration)
                    = Time - a.start_time

\* C17 as stated: now (not in simple mode) for a sheet, the current one or
\* one named in full, fails with EmptySheet exactly when the sheet has no
\* entry, and otherwise reports not active or the elapsed time.
C17_Original ==
    (Ran("now") /\ ~Args.simple /\ Args.timesheet \in {NULL, Some(s_dev)})
        => LET sheet == IF Args.timesheet = NULL THEN Val(last.pre_meta)
                        ELSE Val(Args.timesheet)
           IN  IF RowsOf(Pre, sheet) = {}
               THEN last.err = Some("EmptySheet")
               ELSE NowReports(sheet)

\* C17 amended: now (not in simple mode) without a sheet name fails with
\* EmptySheet exactly when the current sheet has no entry; with a sheet name
\* it never fails with EmptySheet: the name is resolved among the sheets
\* that have entries, and it fails with NoMatch when it stands for none of
\* them and with AmbiguousLookup when it stands for several. In the other
\* cases it succeeds and, unless only the notes are asked for, reports not
\* active or the elapsed time.
C17_Now ==
    (Ran("now") /\ ~Args.simple) =>
        IF Args.timesheet = NULL
        THEN IF RowsOf(Pre, Val(last.pre_meta)) = {}
             THEN last.err = Some("EmptySheet")
             ELSE IF Args.notes THEN last.err = NULL
             ELSE NowReports(Val(last.pre_meta))
        ELSE LET found == Matching(Val(Args.timesheet))
             IN  IF found = {} THEN last.err = Some("NoMatch")
                 ELSE IF Cardinality(found) > 1
                 THEN last.err = Some("AmbiguousLookup")
                 ELSE IF Args.notes THEN last.err = NULL
                 ELSE \E sheet \in found : NowReports(sheet)

\* now has just failed with EmptySheet on the current sheet, which has no
\* entry, while another sheet has entries
C17_Witness ==
    /\ Ran("now") /\ ~Args.simple /\ Args.timesheet = NULL
    /\ last.err = Some("EmptySheet")
    /\ entry # {}

\* name a comes before name b in ascending order
Before(a, b) ==
    \E k \in 1..Len(b) :
        /\ \A i \in 1..(k - 1) : i <= Len(a) /\ a[i] = b[i]
        /\ k > Len(a) \/ Code(a[k]) < Code(b[k])

\* C18: list in simple mode prints exactly the names of the sheets that
\* have an entry, each once, in ascending order; a current sheet without
\* entries is not printed.
C18_ListSimple ==
    (Ran("list") /\ Args.simple) =>
        /\ last.err = NULL
        /\ LET names == IF entry = {} THEN <<>> ELSE last.output
           IN  /\ {names[i] : i \in 1..Len(names)} = SheetsOf(entry)
               /\ Len(names) = Cardinality(SheetsOf(entry))
               /\ \A i, j \in 1..Len(names) :
                     i < j => Before(names[i], names[j])
        /\ entry = {} => last.output = <<<<>>>>

\* list in simple mode has just printed two names, the first entry made
\* being of the sheet printed second
C18_Witness ==
    /\ Ran("list") /\ Args.simple
    /\ Len(last.output) = 2
    /\ \E r \in entry :
         r.sheet = last.output[2] /\ \A q \in entry : r.id <= q.id

\* the sheet the last now or display is about: the current sheet, or the
\* one sheet with entries the name given stands for
Shown ==
    IF Args.timesheet = NULL THEN Val(last.pre_meta)
    ELSE CHOOSE n \in Matching(Val(Args.timesheet)) : TRUE

\* the seconds a printed duration h:mm:ss stands for
HmsSeconds(hms) == hms[1] * 3600 + hms[2] * 60 + hms[3]

\* the sum of end_time - start_time over closed rows, entry after entry
RECURSIVE Worked(_)
Worked(rows) ==
    IF rows = {} THEN 0
    ELSE LET r == CHOOSE q \in rows : \A x \in rows : q.id >= x.id
         IN  Worked(rows \ {r}) + (Val(r.end_time) - r.start_time)

\* the positions of the rows of a printed table that hold the total of a
\* day: no day label and no time range, between the header and the last row
DayTotalRows(table) ==
    {i \in 2..(Len(table) - 1) : table[i][1] = <<>> /\ table[i][2] = <<>>}

\* the sum of the durations printed at the positions given
RECURSIVE PrintedSum(_, _)
PrintedSum(table, positions) ==
    IF positions = {} THEN 0
    ELSE LET i == CHOOSE x \in positions : TRUE
         IN  HmsSeconds(table[i][3]) + PrintedSum(table, positions \ {i})

\* the last command was a plain display without date bounds
PlainDisplay ==
    /\ Ran("display") /\ Args.format = "plain"
    /\ Args.start = NULL /\ Args.end = NULL

\* C19: a clock-out at T0+d (d >= 0) on a sheet whose only entry was
\* started at T0 leaves exactly one entry, with start_time T0 and end_time
\* T0+d, and a plain display of such a sheet prints the grand total d; for
\* every sheet with entries that are all closed, the grand total of a
\* plain display without bounds is the sum of end_time - start_time over
\* the entries of the sheet and is the sum of the day totals printed.
C19_RoundTrip ==
    /\ (Ran("out") /\ last.err = NULL) =>
          \A a \in RowsOf(Pre, meta) :
              RowsOf(Pre, meta) = {a} =>
                /\ RowsOf(Store, meta) =
                     {[a EXCEPT !.end_time = Some(Time)]}
                /\ Time - a.start_time >= 0
    /\ (PlainDisplay /\ Args.timesheet = NULL) => last.err = NULL
    /\ (PlainDisplay /\ last.err = NULL
          /\ RowsOf(Pre, Shown) # {} /\ ActiveRows(Pre, Shown) = {}) =>
          LET table == last.output
              total == table[Len(table)]
          IN  /\ total[1] = <<"Total">>
              /\ HmsSeconds(total[3]) = Worked(RowsOf(Pre, Shown))
              /\ HmsSeconds(total[3])
                   = PrintedSum(table, DayTotalRows(table))
              /\ \A a \in RowsOf(Pre, Shown) :
                    RowsOf(Pre, Shown) = {a} =>
                      HmsSeconds(total[3]) = Val(a.end_time) - a.start_time

\* a plain display has just printed the totals of two days, with a grand
\* total that is not zero
C19_Witness ==
    /\ PlainDisplay /\ last.err = NULL
    /\ RowsOf(Pre, Shown) # {} /\ ActiveRows(Pre, Shown) = {}
    /\ Cardinality(DayTotalRows(last.output)) = 2
    /\ HmsSeconds(last.output[Len(last.output)][3]) > 0

\* the timestamp a printed date and time stand for
Stamp(f) == f.date * 86400 + HmsSeconds(f.time)

\* the data row of a CSV display is the row of entry r
RowOf(row, r) ==
    /\ Stamp(row[1]) = r.start_time
    /\ Stamp(row[2]) = Val(r.end_time)
    /\ row[3] = Val(r.end_time) - r.start_time

\* a closed entry is inside the date bounds of the last display when it
\* starts at or after the start bound and ends before the end bound, and
\* outside when it starts before the start bound or ends after the end bound
Inside(r) ==
    /\ Args.start # NULL => r.start_time >= Val(Args.start)
    /\ Args.end # NULL => Val(r.end_time) < Val(Args.end)
Outside(r) ==
    \/ Args.start # NULL /\ r.start_time < Val(Args.start)
    \/ Args.end # NULL /\ Val(r.end_time) > Val(Args.end)

\* C20: a CSV display of a sheet writes one data row for every closed
\* entry of the sheet inside the date bounds, none for an entry outside
\* them and none for an entry still open, and its last row holds the
\* formula SUM(C2:C(n+1))/3600 for its n data rows. (An entry ending
\* exactly at the end bound is neither required nor forbidden here.)
C20_CsvRows ==
    (Ran("display") /\ Args.format = "csv" /\ last.err = NULL) =>
        LET table == last.output
            n == Len(table) - 2
            closed == ClosedRows(Pre, Shown)
        IN  /\ n >= 0
            /\ \E written \in SUBSET closed :
                  /\ \A r \in closed : Inside(r) => r \in written
                  /\ \A r \in closed : Outside(r) => r \notin written
                  /\ Cardinality(written) = n
                  /\ \E f \in [2..(n + 1) -> written] :
                        /\ \A i, j \in 2..(n + 1) : i # j => f[i] # f[j]
                        /\ \A i \in 2..(n + 1) : RowOf(table[i], f[i])
            /\ table[n + 2][3] =
                  [sum_from |-> 2, sum_to |-> n + 1, per |-> 3600]

\* a CSV display has just written one data row for a sheet that has a
\* closed entry and an open one
C20_Witness ==
    /\ Ran("display") /\ Args.format = "csv" /\ last.err = NULL
    /\ Len(last.output) = 3
    /\ ClosedRows(Pre, Shown) # {}
    /\ ActiveRows(Pre, Shown) # {}

\* the time the rows last, an entry still open lasting until the time of
\* the last command
RECURSIVE Lasted(_)
Lasted(rows) ==
    IF rows = {} THEN 0
    ELSE LET r == CHOOSE q \in rows : \A x \in rows : q.id <= x.id
         IN  (IF r.end_time = NULL THEN Time - r.start_time
              ELSE Val(r.end_time) - r.start_time) + Lasted(rows \ {r})

\* the entries of the sheet shown that the date bounds of the last display
\* admit: those starting at or after the start bound and ending before the
\* end bound
Admitted ==
    {r \in RowsOf(Pre, Shown) :
        /\ Args.start # NULL => r.start_time >= Val(Args.start)
        /\ Args.end # NULL =>
              (r.end_time # NULL /\ Val(r.end_time) < Val(Args.end))}

\* the positions of the rows of a printed table that show an entry
EntryRows(table) ==
    IF Len(table) < 4 THEN {}
    ELSE {i \in 2..(Len(table) - 1) : table[i][2] # <<>>}

\* C21: the date bounds of display are start-inclusive and end-exclusive:
\* the entries shown are those with start_time >= S and end_time < E, and
\* an entry ending at or after E enters neither the rows nor the totals.
C21_DateBounds ==
    (Ran("display") /\ last.err = NULL) =>
        /\ Args.format = "csv" =>
              Len(last.output) - 2 =
                Cardinality({r \in Admitted : r.end_time # NULL})
        /\ Args.format = "plain" =>
              /\ Cardinality(EntryRows(last.output)) = Cardinality(Admitted)
              /\ Admitted # {} =>
                    HmsSeconds(last.output[Len(last.output)][3])
                      = Lasted(Admitted)

\* the last command was a clock-in with out-first whose directives do not
\* conflict (a clock-in with both resume and a description fails before its
\* out-first step, see C23)
OutFirstRan ==
    /\ Ran("in_") /\ Args.out
    /\ ~(Args.resume /\ Args.description # <<>>)

\* C22: a clock-in with out-first clocks out before inserting, with the same
\* timestamp, on the sheet current after the switch: when that sheet has no
\* active entry the command fails with SheetNotActive and inserts nothing;
\* otherwise the clock-out uses the clock-in's timestamp, and on success the
\* previously active entry is closed with end_time equal to the new entry's
\* start_time and the new entry is the only active one of the sheet; the
\* entries of other sheets are not touched.
C22_OutFirst ==
    OutFirstRan =>
        /\ ActiveRows(Pre, Target) = {} =>
              (last.err = Some("SheetNotActive") /\ StoreUnchanged)
        /\ ActiveRows(Pre, Target) # {} => last.out_timestamp = Some(Time)
        /\ last.err = NULL =>
              \E new \in entry \ last.pre_entry :
                /\ new.id \notin {q.id : q \in last.pre_entry}
                /\ ActiveRows(Store, Target) = {new}
                /\ \A a \in ActiveRows(Pre, Target) :
                      [a EXCEPT !.end_time = Some(new.start_time)] \in entry
        /\ \A r \in last.pre_entry : r.sheet # Target => r \in entry

\* the closed entries of the target sheet after the last command that end
\* last
LastClosed ==
    {c \in ClosedRows(Store, Target) :
        \A q \in ClosedRows(Store, Target) :
            Val(q.end_time) <= Val(c.end_time)}

\* the entries the out-first step of the last clock-in has closed
JustClosed ==
    {c \in ClosedRows(Store, Target) :
        Args.out /\ [c EXCEPT !.end_time = NULL] \in last.pre_entry}

C24_SheetOrdered ==
    \A sheet \in SheetsOf(entry) :
        \A r \in RowsOf(Store, sheet) :
            /\ r.end_time # NULL => r.start_time <= Val(r.end_time)
            /\ \A q \in RowsOf(Store, sheet) :
                  r.id < q.id =>
                    /\ r.end_time # NULL
                    /\ Val(r.end_time) <= q.start_time

\* a clock-in has just succeeded on a sheet that now holds three entries,
\* the first of which ended before the second ended
C24_Witness ==
    /\ Ran("in_") /\ last.err = NULL
    /\ Cardinality(RowsOf(Store, Target)) = 3
    /\ \E r, q \in ClosedRows(Store, Target) :
          r.id < q.id /\ Val(r.end_time) < Val(q.end_time)

\* what a step may do to the entry r of the store: keep it as it is; while
\* its end_time is null, set its end_time (a clock-out) or its description
\* (alter) and nothing else; or delete it by a confirmed kill of its sheet
MayBecome(r) ==
    LET after == {q \in entry' : q.id = r.id}
    IN  /\ Cardinality(after) <= 1
        /\ \A q \in after :
              /\ q.sheet = r.sheet /\ q.start_time = r.start_time
              /\ r.end_time # NULL => q = r
              /\ q.end_time # r.end_time =>
                    /\ q.end_time # NULL
                    /\ last'.func \in {"out", "in_"}
                    /\ q = [r EXCEPT !.end_time = q.end_time]
              /\ q.description # r.description =>
                    /\ last'.func = "alter"
                    /\ q = [r EXCEPT !.description = q.description]
        /\ after = {} =>
              (KillConfirmed' /\ last'.err = NULL /\ r.sheet = Killed')

\* C25: entries are write-once after closing. In every step, every entry
\* keeps its id, sheet and start_time; its end_time changes only from null
\* to a value (by a clock-out) and its description only while its end_time
\* is null (by alter); an entry whose end_time is set is left as it is by
\* every command, and disappears only through a confirmed kill of its
\* sheet; and a new entry takes an id never used before.
C25_WriteOnce ==
    [][/\ \A r \in entry : MayBecome(r)
       /\ \A q \in entry' :
             q.id \notin {r.id : r \in entry} => (seq <= q.id /\ q.id < seq')
       /\ \A r \in entry : r.id < seq
       /\ seq <= seq']_vars

\* alter has just rewritten the description of the active entry of a sheet
\* that also holds a closed entry with another description
C25_Witness ==
    /\ Ran("alter") /\ last.err = NULL
    /\ \E r \in ClosedRows(Pre, meta), a \in ActiveRows(Store, meta) :
          /\ r \in entry
          /\ a \notin last.pre_entry
          /\ r.description # a.description

====
